---- MODULE Spec2Model ----
(***************************************************************************)
(* Model of package cann (src/cann/cann.go): the HTTP handler              *)
(* GenerateTable, which fetches the league standings, converts them into a *)
(* Cann table (generateCann) and renders it, reporting failures through    *)
(* returnError.                                                            *)
(*                                                                         *)
(* Strings are sequences of one-character strings, so that formatting      *)
(* (fmt.Sprintf) and concatenation (+=) are modelled by what they do.      *)
(***************************************************************************)
EXTENDS Integers, Sequences, FiniteSets, TLC

\* ---------------------------------------------------------------- bounds
MaxLen == 4      \* longest standings table drawn as input

\* points values drawn as input: a deduction below zero, zero, and one above
PointValues == {-1, 0, 1}

\* (shortName, position, playedGames, goalDifference) combinations drawn as
\* input: zero, negative and positive goal difference, one- and two-digit
\* numbers, one- and two-letter names.
Sample ==
  { [name |-> <<"A">>,      pos |-> 1,  played |-> 0,  gd |-> 0],
    [name |-> <<"B", "C">>, pos |-> 2,  played |-> 10, gd |-> -3],
    [name |-> <<"A">>,      pos |-> 12, played |-> 38, gd |-> 15] }

\* type TableRow (Team.ID is never read by the package and is left out).
\* The third sample is drawn with the top points value only, which keeps
\* the input space small.
TableRows ==
  { [Team |-> [ShortName |-> s.name], Position |-> s.pos, Played |-> s.played,
     Points |-> p, GoalDiff |-> s.gd] :
       <<s, p>> \in { x \in Sample \X PointValues : x[1].gd > 0 => x[2] = 1 } }

Tables == UNION { [1..n -> TableRows] : n \in 0..MaxLen }

\* The response body handed to generateCann: either bytes json.Unmarshal
\* rejects, or a DataResponse whose Standings list is empty or has one
\* Standings element.
Bodies ==
  { [valid |-> FALSE, data |-> << >>] } \cup
  { [valid |-> TRUE, data |-> d] : d \in { << >> } \cup { << [Table |-> t] >> : t \in Tables } }

\* ------------------------------------------------------------ formatting
DigitChar(d) == <<"0", "1", "2", "3", "4", "5", "6", "7", "8", "9">>[d + 1]

RECURSIVE Digits(_)
Digits(n) == IF n < 10 THEN << DigitChar(n) >>
             ELSE Digits(n \div 10) \o << DigitChar(n % 10) >>

\* fmt verb %d
FmtD(n) == IF n < 0 THEN <<"-">> \o Digits(-n) ELSE Digits(n)

\* a formatter that drops the + flag
FmtPlusD_NoFlag(n) == FmtD(n)

\* fmt verb %+d
FmtPlusD(n) == IF n < 0 THEN <<"-">> \o Digits(-n) ELSE <<"+">> \o Digits(n)

\* fmt.Sprintf(rowFormat, ...) with rowFormat = "[%d]%s(%d, %+d)"
rowFormat(position, shortName, played, goalDiff) ==
  <<"[">> \o FmtD(position) \o <<"]">> \o shortName \o <<"(">> \o FmtD(played)
    \o <<",", " ">> \o FmtPlusD(goalDiff) \o <<")">>

rowData(row) == rowFormat(row.Position, row.Team.ShortName, row.Played, row.GoalDiff)

\* fmt.Sprintf(" - %v", rowData)
teamSegment(data) == <<" ", "-", " ">> \o data

\* a concatenation that puts the new segment in front
appendTeams_Prepend(teams, segment) == segment \o teams

\* cannTable[index].Teams += segment
appendTeams(teams, segment) == teams \o segment

\* ------------------------------------------------------------ generateCann
\* a row count that forgets the row of minPoints
rowCount_NoPlusOne(maxP, minP) == maxP - minP

\* the length passed to make([]Row, ...)
rowCount(maxP, minP) == maxP - minP + 1

\* a point axis counting up from the first row
rowPoints_Ascending(maxP, i) == maxP + i

\* cannTable[i].Points = maxPoints - Points(i), i 0-based
rowPoints(maxP, i) == maxP - i

\* an index clamped to the first row for points above maxPoints
rowIndex_Clamped(maxP, points) == IF points > maxP THEN 0 ELSE maxP - points

\* index := maxPoints - row.Points
rowIndex(maxP, points) == maxP - points

VARIABLES
  standings,        \* the body the provider serves (the input)
  pc,               \* position of the handler
  second,           \* TRUE in the second request served on the same input
  standingsTable,   \* dataResponse.Standings[0].Table
  maxPoints, minPoints,
  cannTable,        \* the rows allocated by make
  next,             \* position of the range loop over standingsTable (1-based)
  err,              \* the error value a step returned, "none" if none
  panicked,         \* the step that panicked, "none" if none
  ranGenerate,      \* generateCann has been called in this request
  returnErrorCalls, \* number of calls of returnError in this request
  w,                \* the http.ResponseWriter: status line and what was written
  prev              \* what the first request computed, kept for comparison

vars == << standings, pc, second, standingsTable, maxPoints, minPoints, cannTable,
           next, err, panicked, ranGenerate, returnErrorCalls, w, prev >>

NoResponse == [status |-> 0, rows |-> << >>, msg |-> "none"]
NoPrev == [transformed |-> FALSE, cannTable |-> << >>, standingsTable |-> << >>]

\* http.ResponseWriter.WriteHeader: only the first status line counts
WriteHeader(resp, code) == IF resp.status = 0 THEN [resp EXCEPT !.status = code] ELSE resp

\* a Write of template output: an implicit WriteHeader(200) precedes the first bytes
WriteRows(resp, rows) ==
  IF rows = << >> THEN resp
  ELSE [WriteHeader(resp, 200) EXCEPT !.rows = resp.rows \o rows]

\* fmt.Fprint(w, errMsg)
WriteMsg(resp, m) == [WriteHeader(resp, 200) EXCEPT !.msg = m]

Init ==
  /\ standings \in Bodies
  /\ pc = "start"
  /\ second = FALSE
  /\ standingsTable = << >>
  /\ maxPoints = 0
  /\ minPoints = 0
  /\ cannTable = << >>
  /\ next = 1
  /\ err = "none"
  /\ panicked = "none"
  /\ ranGenerate = FALSE
  /\ returnErrorCalls = 0
  /\ w = NoResponse
  /\ prev = NoPrev

\* a panic unwinds the handler; net/http recovers it and drops the connection
Panic(where) ==
  /\ panicked' = where
  /\ pc' = "done"

\* GenerateTable, line 51: standings, err := getStandings()
getStandings ==
  /\ pc = "start"
  /\ \E ok \in BOOLEAN :
       IF ok THEN /\ pc' = "unmarshal"
                  /\ ranGenerate' = TRUE
                  /\ err' = err
             ELSE /\ pc' = "returnError"
                  /\ err' = "getStandings"
                  /\ ranGenerate' = ranGenerate
  /\ UNCHANGED << standings, second, standingsTable, maxPoints, minPoints, cannTable,
                  next, panicked, returnErrorCalls, w, prev >>

\* generateCann, lines 112-119: decode, then read the table and its bounds
Unmarshal ==
  /\ pc = "unmarshal"
  /\ IF ~standings.valid
       THEN /\ err' = "unmarshal"
            /\ pc' = "returnError"
            /\ UNCHANGED << standingsTable, maxPoints, minPoints, panicked >>
     ELSE IF Len(standings.data) = 0
       THEN /\ Panic("standings")
            /\ UNCHANGED << standingsTable, maxPoints, minPoints, err >>
     ELSE IF Len(standings.data[1].Table) = 0
       THEN /\ Panic("table")
            /\ standingsTable' = standings.data[1].Table
            /\ UNCHANGED << maxPoints, minPoints, err >>
     ELSE /\ standingsTable' = standings.data[1].Table
          /\ maxPoints' = standingsTable'[1].Points
          /\ minPoints' = standingsTable'[Len(standingsTable')].Points
          /\ pc' = "make"
          /\ UNCHANGED << err, panicked >>
  /\ UNCHANGED << standings, second, cannTable, next, ranGenerate, returnErrorCalls, w, prev >>

\* a table kept from the previous request when it has the right length
MakeTable_Reuse(maxP, minP) ==
  IF Len(cannTable) = rowCount(maxP, minP) /\ Len(cannTable) > 0 THEN cannTable
  ELSE [i \in 1..rowCount(maxP, minP) |-> [Points |-> rowPoints(maxP, i - 1), Teams |-> << >>]]

\* lines 122-125: make([]Row, n) and the loop that sets Points
MakeTable(maxP, minP) ==
  [i \in 1..rowCount(maxP, minP) |-> [Points |-> rowPoints(maxP, i - 1), Teams |-> << >>]]

Make ==
  /\ pc = "make"
  /\ IF rowCount(maxPoints, minPoints) < 0
       THEN /\ Panic("make")
            /\ UNCHANGED << cannTable, next >>
       ELSE /\ cannTable' = MakeTable(maxPoints, minPoints)
            /\ next' = 1
            /\ pc' = "place"
            /\ UNCHANGED panicked
  /\ UNCHANGED << standings, second, standingsTable, maxPoints, minPoints, err,
                  ranGenerate, returnErrorCalls, w, prev >>

\* lines 130-134: one iteration of the range loop over standingsTable
PlaceTeam ==
  /\ pc = "place"
  /\ next <= Len(standingsTable)
  /\ LET row == standingsTable[next]
         index == rowIndex(maxPoints, row.Points)
     IN IF index < 0 \/ index >= Len(cannTable)
          THEN /\ Panic("index")
               /\ UNCHANGED << cannTable, next >>
          ELSE /\ cannTable' = [cannTable EXCEPT ![index + 1].Teams =
                                  appendTeams(@, teamSegment(rowData(row)))]
               /\ next' = next + 1
               /\ UNCHANGED << pc, panicked >>
  /\ UNCHANGED << standings, second, standingsTable, maxPoints, minPoints, err,
                  ranGenerate, returnErrorCalls, w, prev >>

\* lines 137-142: parse the template file and execute it on cannTable.
\* template.Must panics when the file cannot be parsed; Execute writes as it
\* goes and may stop with an error after any number of rows.
ExecuteTemplate ==
  /\ pc = "place"
  /\ next > Len(standingsTable)
  /\ \/ /\ Panic("template")
        /\ UNCHANGED << w, err >>
     \/ /\ w' = WriteHeader(WriteRows(w, cannTable), 200)
        /\ pc' = "done"
        /\ UNCHANGED << err, panicked >>
     \/ \E k \in 0..Len(cannTable) :
          /\ w' = WriteRows(w, SubSeq(cannTable, 1, k))
          /\ err' = "execute"
          /\ pc' = "returnError"
          /\ UNCHANGED panicked
  /\ UNCHANGED << standings, second, standingsTable, maxPoints, minPoints, cannTable,
                  next, ranGenerate, returnErrorCalls, prev >>

\* returnError, lines 63-68
returnError ==
  /\ pc = "returnError"
  /\ returnErrorCalls' = returnErrorCalls + 1
  /\ w' = WriteMsg(WriteHeader(w, 500), err)
  /\ pc' = "done"
  /\ UNCHANGED << standings, second, standingsTable, maxPoints, minPoints, cannTable,
                  next, err, panicked, ranGenerate, prev >>

\* cannTable holds the finished table of this request: the range loop ran to its end
Transformed == pc \in {"place", "returnError", "done"} /\ next > Len(standingsTable)
               /\ panicked \in {"none", "template"} /\ err \in {"none", "execute"}
               /\ ranGenerate

\* cannHandler serves a second request while the provider serves the same body
cannHandler ==
  /\ pc = "done"
  /\ ~second
  /\ second' = TRUE
  /\ prev' = [transformed |-> Transformed, cannTable |-> cannTable,
              standingsTable |-> standingsTable]
  /\ pc' = "start"
  /\ err' = "none"
  /\ panicked' = "none"
  /\ ranGenerate' = FALSE
  /\ returnErrorCalls' = 0
  /\ w' = NoResponse
  \* the locals of the finished call are dead: the new call assigns each
  \* of them before it reads it
  /\ UNCHANGED << standings, standingsTable, maxPoints, minPoints, cannTable, next >>

Next ==
  \/ getStandings
  \/ Unmarshal
  \/ Make
  \/ PlaceTeam
  \/ ExecuteTemplate
  \/ returnError
  \/ cannHandler

Spec == Init /\ [][Next]_vars

\* ------------------------------------------------------------- properties
\* the entries the transformer is given
Input == IF standings.valid /\ Len(standings.data) > 0 THEN standings.data[1].Table ELSE << >>

\* generateCann has decoded a table with at least one entry
NonEmptyInput == ranGenerate /\ pc # "unmarshal" /\ Len(Input) > 0

Descending(t) == \A i \in 1..(Len(t) - 1) : t[i].Points >= t[i + 1].Points

\* make has returned in this request
Allocated == NonEmptyInput /\ pc \in {"place", "returnError", "done"} /\ panicked # "make"

FirstPoints == Input[1].Points
LastPoints == Input[Len(Input)].Points

Max(S) == CHOOSE x \in S : \A y \in S : y <= x
Min(S) == CHOOSE x \in S : \A y \in S : x <= y
InputPoints == { Input[i].Points : i \in 1..Len(Input) }

\* the descriptor of an entry as the specification words it: separator,
\* [position]shortName(played, signed goalDifference)
Sign(n) == IF n >= 0 THEN <<"+">> ELSE <<"-">>
Abs(n) == IF n >= 0 THEN n ELSE -n
Descriptor(e) ==
  <<" ", "-", " ", "[">> \o Digits(e.Position) \o <<"]">> \o e.Team.ShortName \o <<"(">>
    \o Digits(e.Played) \o <<",", " ">> \o Sign(e.GoalDiff) \o Digits(Abs(e.GoalDiff)) \o <<")">>

OccursAt(s, sub, p) == p >= 1 /\ p + Len(sub) - 1 <= Len(s) /\ SubSeq(s, p, p + Len(sub) - 1) = sub
Contains(s, sub) == \E p \in 1..Len(s) : OccursAt(s, sub, p)

\* the descriptors of the entries of t holding points pts, in the order of t
RECURSIVE DescriptorsOf(_, _)
DescriptorsOf(t, pts) ==
  IF t = << >> THEN << >>
  ELSE (IF Head(t).Points = pts THEN Descriptor(Head(t)) ELSE << >>) \o DescriptorsOf(Tail(t), pts)

\* every entry sits in the row of its points
AllPlaced ==
  \A e \in 1..Len(Input) : \E r \in 1..Len(cannTable) :
     cannTable[r].Points = Input[e].Points /\ Contains(cannTable[r].Teams, Descriptor(Input[e]))

\* C1 (as claimed): for every non-empty input, generateCann builds a table with
\* exactly maxPoints - minPoints + 1 rows, maxPoints and minPoints being the
\* points of the first and of the last entry.
C1_RowCountAnyInput ==
  (NonEmptyInput /\ pc = "done") =>
     (Allocated /\ Len(cannTable) = FirstPoints - LastPoints + 1)

\* C1 (amended): for every non-empty input whose maxPoints - minPoints + 1 is
\* not negative, make returns a table of exactly that many rows; when it is
\* negative make panics.
C1_RowCount ==
  (NonEmptyInput /\ pc \in {"place", "returnError", "done"}) =>
     IF FirstPoints - LastPoints + 1 >= 0
       THEN Allocated /\ Len(cannTable) = FirstPoints - LastPoints + 1
       ELSE panicked = "make"

C1_Witness ==
  /\ Allocated /\ pc = "done" /\ panicked = "none" /\ err = "none"
  /\ Len(cannTable) = 3 /\ Len(Input) = 2

\* C2: in every table built the point axis is dense and strictly descending:
\* row i (0-based) has points maxPoints - i, and each row has one point more
\* than the row below it.
C2_DenseDescendingAxis ==
  Allocated =>
     /\ \A r \in 1..Len(cannTable) : cannTable[r].Points = FirstPoints - (r - 1)
     /\ \A r \in 1..(Len(cannTable) - 1) : cannTable[r].Points = cannTable[r + 1].Points + 1

C2_Witness ==
  /\ Allocated /\ Transformed /\ pc = "done"
  /\ Len(cannTable) >= 3
  /\ \E r \in 1..Len(cannTable) : cannTable[r].Teams = << >>

\* C3: for a non-empty input in descending-points order, the row whose points
\* equal an entry's points contains that entry's descriptor, the goal
\* difference carrying + when zero or positive and - when negative.
C3_Placement ==
  (NonEmptyInput /\ Descending(Input) /\ Transformed) => AllPlaced

C3_Witness ==
  /\ NonEmptyInput /\ Descending(Input) /\ Transformed /\ pc = "done"
  /\ \E a, b, c \in 1..Len(Input) :
        Input[a].GoalDiff = 0 /\ Input[b].GoalDiff < 0 /\ Input[c].GoalDiff > 0

\* C4: entries with equal points each have their separator-prefixed descriptor
\* in the row of that point value, the earlier entry's before the later one's.
C4_TiesInInputOrder ==
  Transformed =>
     \A i, j \in 1..Len(Input) :
        (i < j /\ Input[i].Points = Input[j].Points) =>
           \E r \in 1..Len(cannTable) :
              /\ cannTable[r].Points = Input[i].Points
              /\ LET teams == cannTable[r].Teams
                     di == Descriptor(Input[i])
                     dj == Descriptor(Input[j])
                 IN \E p \in 1..Len(teams) :
                       /\ OccursAt(teams, di, p)
                       /\ \E q \in (p + Len(di))..Len(teams) : OccursAt(teams, dj, q)

C4_Witness ==
  /\ Transformed /\ pc = "done"
  /\ \E i, j \in 1..Len(Input) :
        i < j /\ Input[i].Points = Input[j].Points /\ Input[i] # Input[j]

\* C5: a row's description is made of one descriptor for each entry holding
\* the row's points and of nothing else; a point value no team holds has a
\* row with the empty description.
C5_RowHoldsExactlyItsTeams ==
  Transformed =>
     /\ \A r \in 1..Len(cannTable) :
           cannTable[r].Teams = DescriptorsOf(Input, cannTable[r].Points)
     /\ \A pts \in LastPoints..FirstPoints :
           \E r \in 1..Len(cannTable) :
              /\ cannTable[r].Points = pts
              /\ (pts \notin InputPoints => cannTable[r].Teams = << >>)

C5_Witness ==
  /\ Transformed /\ pc = "done" /\ Len(Input) = 3
  /\ \E r \in 1..Len(cannTable) : cannTable[r].Teams = << >>
  /\ \E r \in 1..Len(cannTable) : Len(cannTable[r].Teams) > Len(Descriptor(Input[1]))

\* C6 (as claimed): a standings table with zero entries makes the transformer
\* return an error, which GenerateTable reports through returnError; no row
\* is rendered.
C6_EmptyInputIsReported ==
  (pc = "done" /\ ranGenerate /\ standings.valid /\ Len(standings.data) > 0 /\ Len(Input) = 0) =>
     /\ panicked = "none"
     /\ err # "none"
     /\ returnErrorCalls = 1
     /\ w.rows = << >>

\* C7 (as claimed): for every non-empty input, in descending-points order or
\* not, the transformation completes and returns its rows.
C7_NoFailureAnyOrder ==
  (NonEmptyInput /\ pc = "done") => Transformed

\* C7 (amended): for every non-empty input in descending-points order the
\* transformation completes: the row count is at least 1, every index lies
\* inside the table, and nothing panics before the rows are final.
C7_NoFailureWhenDescending ==
  (NonEmptyInput /\ Descending(Input)) =>
     /\ panicked \notin {"standings", "table", "make", "index"}
     /\ (pc = "make" => rowCount(maxPoints, minPoints) >= 1)
     /\ (Allocated => Len(cannTable) >= 1)
     /\ (pc = "place" /\ next <= Len(standingsTable) =>
            rowIndex(maxPoints, standingsTable[next].Points) \in 0..(Len(cannTable) - 1))
     /\ (pc = "done" => Transformed)

C7_Witness ==
  /\ NonEmptyInput /\ Descending(Input) /\ pc = "done" /\ Transformed
  /\ Len(Input) = 3 /\ FirstPoints > LastPoints

\* C8: a second run on the same entries yields the same rows, points and
\* descriptions alike, and a run leaves the entries as they were.
C8_DeterministicInputUnchanged ==
  Transformed =>
     /\ standingsTable = Input
     /\ (second /\ prev.transformed) =>
           (cannTable = prev.cannTable /\ standingsTable = prev.standingsTable)

C8_Witness ==
  /\ second /\ prev.transformed /\ Transformed /\ pc = "done"
  /\ Len(cannTable) >= 2 /\ Len(Input) >= 2

\* C9: for a non-empty input in any order, a run either ends in an error (a
\* panic of make or of the row index, before anything is rendered) or its
\* table has every entry in the row of its points and spans exactly the true
\* minimum to the true maximum of the input's points.
C9_NoPartialTable ==
  NonEmptyInput =>
     /\ Transformed =>
           /\ AllPlaced
           /\ Len(cannTable) = Max(InputPoints) - Min(InputPoints) + 1
           /\ cannTable[1].Points = Max(InputPoints)
           /\ cannTable[Len(cannTable)].Points = Min(InputPoints)
     /\ (pc = "done" /\ ~Transformed) => (panicked \in {"make", "index"} /\ w.rows = << >>)

C9_Witness ==
  /\ NonEmptyInput /\ ~Descending(Input) /\ Transformed /\ pc = "done"

\* C10 (as claimed): when fetching, decoding or executing the template fails,
\* returnError is called exactly once, the response has status 500 and the
\* error message, and no row of the table was written before; when
\* getStandings fails generateCann is not run.
C10_FailureReportedCleanly ==
  (pc = "done" /\ err # "none") =>
     /\ returnErrorCalls = 1
     /\ w.status = 500
     /\ w.msg = err
     /\ w.rows = << >>
     /\ (err = "getStandings" => ~ranGenerate)
====
